---- MODULE Spec2Model ----
(***************************************************************************)
(* A model of kakoune-lsp's workspace handlers (src/src/workspace.rs) and  *)
(* completion pipeline (src/src/language_features/completion.rs).          *)
(*                                                                         *)
(* Strings are sequences of one-character strings, so that split('.'),     *)
(* chars().count() and without_last_character are computed, not assumed.   *)
(***************************************************************************)
EXTENDS Integers, Sequences, FiniteSets, TLC

VARIABLES
    inbox,                       \* the request or response the next handler is called with
    fs,                          \* the file system std::fs acts on: path -> kind
    documents,                   \* ctx.documents: the buffers the session tracks
    config,                      \* ctx.config
    completion_items,            \* ctx.completion_items
    completion_text_edits,       \* ctx.completion_text_edits: client -> label -> edit
    completion_cursor_position,  \* ctx.completion_cursor_position
    in_flight,                   \* continuations stored by ctx.call, awaiting a response
    editor_out,                  \* commands the last handler sent to the editor (ctx.exec)
    lsp_completions,             \* the editor's menu: the candidates last rendered
    server_out,                  \* messages the last handler sent to the server
    last                         \* the last handler that ran, with its inputs and outcome

vars == <<inbox, fs, documents, config, completion_items, completion_text_edits,
          completion_cursor_position, in_flight, editor_out, lsp_completions,
          server_out, last>>

\* the part of the context the completion pipeline owns
completion == <<completion_items, completion_text_edits, completion_cursor_position,
                in_flight, lsp_completions>>

None == "None"

\* the context before any completion request
NoCompletion ==
    /\ completion_items = <<>>
    /\ completion_text_edits = <<>>
    /\ completion_cursor_position = None
    /\ in_flight = <<>>
    /\ lsp_completions = <<>>

\* nothing is waiting to be handled
NoRequest == [method |-> "none"]

\* ctx.config: snippet_support, and the language's plaintext workaround
DefaultConfig == [snippet_support |-> FALSE, force_plaintext |-> FALSE]

\* no handler has run yet
Idle == [op |-> "none"]

(***************************************************************************)
(* Generic helpers.                                                        *)
(***************************************************************************)
Range(s) == {s[i] : i \in 1..Len(s)}

SeqsUpTo(S, n) == UNION {[1..k -> S] : k \in 0..n}

\* the orders in which the elements of a finite set S can be visited
Orders(S) == {o \in [1..Cardinality(S) -> S] : Range(o) = S}

IsPrefix(p, q) == Len(p) <= Len(q) /\ SubSeq(q, 1, Len(p)) = p

(***************************************************************************)
(* Settings projection: did_change_configuration and insert_value.         *)
(***************************************************************************)
\* bound: the number of keys of the editor's settings table
MaxSettings == 3

\* the flat keys the editor's table draws from: "a.b.c", "a.b", "a.", "a", "b"
RawKeys == { <<"a", ".", "b", ".", "c">>, <<"a", ".", "b">>, <<"a", ".">>,
             <<"a">>, <<"b">> }

\* toml values; Unconvertible stands for one whose conversion to JSON fails
Unconvertible == "unconvertible"
RawValues == {"1", "2", Unconvertible}

\* a JSON object is the map from the paths of its members to "object" or a leaf
Object == "object"

RawTables == UNION {[K -> RawValues] :
                      K \in {S \in SUBSET RawKeys : Cardinality(S) <= MaxSettings}}

\* str::split: the pieces between the separators, empty ones included
RECURSIVE SplitFrom(_, _, _, _)
SplitFrom(s, separators, i, cur) ==
    IF i > Len(s) THEN <<cur>>
    ELSE IF s[i] \in separators THEN <<cur>> \o SplitFrom(s, separators, i + 1, <<>>)
    ELSE SplitFrom(s, separators, i + 1, Append(cur, s[i]))

\* raw_key.split('.')
split(s) == SplitFrom(s, {"."}, 1, <<>>)

\* serde_json Map::insert of a leaf at node: the old member and all below it go
ReplaceAt(tree, node, value) ==
    LET kept == {p \in DOMAIN tree : ~IsPrefix(node, p)}
    IN  [p \in kept \cup {node} |-> IF p = node THEN value ELSE tree[p]]

\* entry(key).or_insert_with(|| Object)
OrInsertObject(tree, node) ==
    IF node \in DOMAIN tree THEN tree
    ELSE [p \in DOMAIN tree \cup {node} |-> IF p = node THEN Object ELSE tree[p]]

\* insert_value on the object at path `at` of tree; ok is Result::is_ok
RECURSIVE insert_value(_, _, _, _, _)
insert_value(tree, at, path, local_key, value) ==
    IF path # <<>>
    THEN LET node == Append(at, Head(path))
             t1 == OrInsertObject(tree, node)
         IN  IF t1[node] # Object
             THEN [ok |-> FALSE, tree |-> t1]
             ELSE insert_value(t1, node, Tail(path), local_key, value)
    ELSE LET node == Append(at, local_key)
         IN  [ok |-> node \notin DOMAIN tree,
              tree |-> ReplaceAt(tree, node, value)]

EmptyTree == [p \in {} |-> Object]

\* the loop body of did_change_configuration for one (raw_key, raw_value)
ProjectKey(acc, raw_key, raw_value) ==
    LET key_parts == split(raw_key)
        n == Len(key_parts)
    IN  IF n = 0                                  \* next_back() is None
        THEN [settings |-> acc.settings, warned |-> acc.warned \cup {raw_key}]
        ELSE IF raw_value = Unconvertible         \* try_into() is Err
        THEN [settings |-> acc.settings, warned |-> acc.warned \cup {raw_key}]
        ELSE LET r == insert_value(acc.settings, <<>>,
                                   SubSeq(key_parts, 1, n - 1), key_parts[n], raw_value)
             IN  [settings |-> r.tree,
                  warned |-> IF r.ok THEN acc.warned ELSE acc.warned \cup {raw_key}]

\* the loop of did_change_configuration over raw_settings.iter(), in `order`
RECURSIVE ProjectAll(_, _, _, _)
ProjectAll(acc, table, order, i) ==
    IF i > Len(order) THEN acc
    ELSE ProjectAll(ProjectKey(acc, order[i], table[order[i]]), table, order, i + 1)

project(table, order) ==
    ProjectAll([settings |-> EmptyTree, warned |-> {}], table, order, 1)

\* did_change_configuration: the table is visited in the order its map type
\* iterates (sorted keys, or insertion order when the toml crate preserves
\* order); the nested object goes to the server as one notification
did_change_configuration ==
    /\ inbox.method = "did_change_configuration"
    /\ LET r == project(inbox.table, inbox.order)
       IN  /\ server_out' = << [method |-> "workspace/didChangeConfiguration",
                                settings |-> r.settings] >>
           /\ last' = [op |-> "did_change_configuration", table |-> inbox.table,
                       order |-> inbox.order, warned |-> r.warned]
    /\ editor_out' = <<>>
    /\ inbox' = NoRequest
    /\ UNCHANGED <<fs, documents, config, completion>>

\* the editor sends one configuration change; the handler keeps no state
InitSettings ==
    /\ inbox \in {[method |-> "did_change_configuration", table |-> t, order |-> o] :
                    t \in RawTables, o \in UNION {Orders(DOMAIN tt) : tt \in RawTables}}
    /\ Range(inbox.order) = DOMAIN inbox.table
    /\ fs = <<>>
    /\ documents = {}
    /\ config = DefaultConfig
    /\ NoCompletion
    /\ editor_out = <<>>
    /\ server_out = <<>>
    /\ last = Idle

NextSettings == did_change_configuration

SpecSettings == InitSettings /\ [][NextSettings]_vars

(***************************************************************************)
(* Workspace edits: apply_document_resource_op and apply_edit.             *)
(***************************************************************************)
\* bound: the number of steps of a workspace edit
MaxOps == 3

\* Option<T> is the set of its values: {} is None, {x} is Some(x)
Some(x) == {x}
unwrap_or(o, default) == IF o = {} THEN default ELSE CHOOSE x \in o : TRUE

\* the paths of the file system: two top-level names and one name below each
TopPaths == {"d", "e"}
ChildOf == [p \in TopPaths |-> IF p = "d" THEN "d/x" ELSE "e/x"]
Paths == TopPaths \cup {ChildOf[p] : p \in TopPaths}
ParentOf(p) == CHOOSE t \in TopPaths : ChildOf[t] = p

\* a path is absent, an empty file, a file with content, or a directory
FileSystems ==
    {f \in [Paths -> {"none", "empty", "data", "dir"}] :
        \A t \in TopPaths : /\ f[ChildOf[t]] # "dir"
                            /\ f[ChildOf[t]] # "none" => f[t] = "dir"}

exists(f, p) == f[p] # "none"
is_dir(f, p) == f[p] = "dir"
is_file(f, p) == f[p] \in {"empty", "data"}
ParentIsDir(f, p) == p \in TopPaths \/ f[ParentOf(p)] = "dir"
IsEmptyDir(f, p) == is_dir(f, p) /\ (p \in TopPaths => f[ChildOf[p]] = "none")

Failed(f) == [ok |-> FALSE, fs |-> f]
Done(f) == [ok |-> TRUE, fs |-> f]

\* fs::write(&path, []): create or truncate the file
fs_write(f, p) ==
    IF is_dir(f, p) \/ ~ParentIsDir(f, p) THEN Failed(f)
    ELSE Done([f EXCEPT ![p] = "empty"])

\* fs::remove_dir_all
fs_remove_dir_all(f, p) ==
    Done([q \in Paths |-> IF q = p \/ (p \in TopPaths /\ q = ChildOf[p])
                          THEN "none" ELSE f[q]])

\* fs::remove_dir: only an empty directory goes
fs_remove_dir(f, p) ==
    IF IsEmptyDir(f, p) THEN Done([f EXCEPT ![p] = "none"]) ELSE Failed(f)

\* fs::remove_file
fs_remove_file(f, p) ==
    IF is_file(f, p) THEN Done([f EXCEPT ![p] = "none"]) ELSE Failed(f)

\* fs::rename (rename(2)): a file replaces a file, a directory replaces an
\* empty directory, and a directory takes what is below it along
fs_rename(f, from, to) ==
    IF ~exists(f, from) \/ ~ParentIsDir(f, to) THEN Failed(f)
    ELSE IF from = to THEN Done(f)
    ELSE IF is_file(f, from)
    THEN IF is_dir(f, to) THEN Failed(f)
         ELSE Done([f EXCEPT ![to] = f[from], ![from] = "none"])
    ELSE IF exists(f, to) /\ ~IsEmptyDir(f, to) THEN Failed(f)
    ELSE IF from \notin TopPaths \/ to \notin TopPaths THEN Failed(f)
    ELSE Done([q \in Paths |->
                 IF q = to THEN "dir"
                 ELSE IF q = ChildOf[to] THEN f[ChildOf[from]]
                 ELSE IF q = from \/ q = ChildOf[from] THEN "none"
                 ELSE f[q]])

\* CreateFileOptions and RenameFileOptions: overwrite, ignore_if_exists
OptBool == {{}, {TRUE}, {FALSE}}
FileOptions == {{}} \cup {Some([overwrite |-> o, ignore_if_exists |-> i]) :
                            o \in OptBool, i \in OptBool}
\* DeleteFileOptions: recursive
DeleteOptions == {{}} \cup {Some([recursive |-> r]) : r \in OptBool}

Create(p, o) == [kind |-> "Create", uri |-> p, options |-> o]
Delete(p, o) == [kind |-> "Delete", uri |-> p, options |-> o]
Rename(p, q, o) == [kind |-> "Rename", old_uri |-> p, new_uri |-> q, options |-> o]
Edit(p) == [kind |-> "Edit", uri |-> p]

\* IgnoreIfExists where overwrite does not win over ignore_if_exists
IgnoreIfExists_OverwriteLoses(options) ==
    IF options = {} THEN FALSE
    ELSE unwrap_or(unwrap_or(options, {}).ignore_if_exists, FALSE)

\* IgnoreIfExists that never ignores
IgnoreIfExists_Never(options) == FALSE

\* !overwrite.unwrap_or(false) && ignore_if_exists.unwrap_or(false)
IgnoreIfExists(options) ==
    IF options = {} THEN FALSE
    ELSE LET o == unwrap_or(options, {})
         IN  ~unwrap_or(o.overwrite, FALSE) /\ unwrap_or(o.ignore_if_exists, FALSE)

\* Recursive that takes an absent recursive for true
Recursive_ByDefault(options) ==
    IF options = {} THEN TRUE
    ELSE unwrap_or(unwrap_or(options, {}).recursive, TRUE)

Recursive(options) ==
    IF options = {} THEN FALSE
    ELSE unwrap_or(unwrap_or(options, {}).recursive, FALSE)

apply_document_resource_op(f, op) ==
    CASE op.kind = "Create" ->
           IF IgnoreIfExists(op.options) /\ exists(f, op.uri) THEN Done(f)
           ELSE fs_write(f, op.uri)
      [] op.kind = "Delete" ->
           IF is_dir(f, op.uri)
           THEN IF Recursive(op.options) THEN fs_remove_dir_all(f, op.uri)
                ELSE fs_remove_dir(f, op.uri)
           ELSE IF is_file(f, op.uri) THEN fs_remove_file(f, op.uri)
           ELSE Done(f)
      [] op.kind = "Rename" ->
           IF IgnoreIfExists(op.options) /\ exists(f, op.new_uri) THEN Done(f)
           ELSE fs_rename(f, op.old_uri, op.new_uri)

\* what a run of apply_edit has done so far: the file system, the commands
\* sent to the editor, and for each step executed its index and outcome
Started(f) == [fs |-> f, out |-> <<>>, log |-> <<>>, applied |-> TRUE]

\* text_edit::apply_text_edits returns nothing: the edits go to the buffer of
\* a tracked document, else to the file on disk; a failure is only logged
apply_text_edits(acc, uri, edits, docs, i) ==
    IF uri \in docs
    THEN [acc EXCEPT !.out = Append(@, [cmd |-> "apply-text-edits", buffile |-> uri,
                                        edits |-> edits]),
                     !.log = Append(@, [i |-> i, ok |-> TRUE])]
    ELSE IF is_file(acc.fs, uri)
    THEN [acc EXCEPT !.fs = [@ EXCEPT ![uri] = "data"],
                     !.log = Append(@, [i |-> i, ok |-> TRUE])]
    ELSE [acc EXCEPT !.log = Append(@, [i |-> i, ok |-> FALSE])]

\* the text edits of a workspace edit, whose content plays no part here
SomeEdits == <<"edit">>

\* for edit in edits { apply_text_edits(..) }
RECURSIVE RunEdits(_, _, _, _)
RunEdits(acc, uris, docs, i) ==
    IF i > Len(uris) THEN acc
    ELSE RunEdits(apply_text_edits(acc, uris[i], SomeEdits, docs, i), uris, docs, i + 1)

\* RunOperations that goes on after a failed resource operation
RECURSIVE RunOperations_GoesOn(_, _, _, _)
RunOperations_GoesOn(acc, ops, docs, i) ==
    IF i > Len(ops) THEN acc
    ELSE IF ops[i].kind = "Edit"
    THEN RunOperations_GoesOn(apply_text_edits(acc, ops[i].uri, SomeEdits, docs, i), ops, docs, i + 1)
    ELSE LET r == apply_document_resource_op(acc.fs, ops[i])
         IN  RunOperations_GoesOn([acc EXCEPT !.fs = r.fs,
                                              !.log = Append(@, [i |-> i, ok |-> r.ok]),
                                              !.applied = @ /\ r.ok],
                                  ops, docs, i + 1)

\* for op in ops { .. }: a failed resource operation returns applied: false
RECURSIVE RunOperations(_, _, _, _)
RunOperations(acc, ops, docs, i) ==
    IF i > Len(ops) THEN acc
    ELSE IF ops[i].kind = "Edit"
    THEN RunOperations(apply_text_edits(acc, ops[i].uri, SomeEdits, docs, i), ops, docs, i + 1)
    ELSE LET r == apply_document_resource_op(acc.fs, ops[i])
         IN  IF ~r.ok
             THEN [acc EXCEPT !.fs = r.fs,
                              !.log = Append(@, [i |-> i, ok |-> FALSE]),
                              !.applied = FALSE]
             ELSE RunOperations([acc EXCEPT !.fs = r.fs,
                                            !.log = Append(@, [i |-> i, ok |-> TRUE])],
                                ops, docs, i + 1)

\* apply_edit; order is the order in which the changes map is iterated
apply_edit(f, docs, edit, order) ==
    IF edit.document_changes # {}
    THEN LET document_changes == unwrap_or(edit.document_changes, {})
         IN  IF document_changes.kind = "Edits"
             THEN RunEdits(Started(f), document_changes.list, docs, 1)
             ELSE RunOperations(Started(f), document_changes.list, docs, 1)
    ELSE IF edit.changes # {}
    THEN RunEdits(Started(f), order, docs, 1)
    ELSE Started(f)

\* the steps of the batches explored at every length up to MaxOps
CoreSteps == { Edit("e"), Edit("d/x"), Create("d/x", {}), Delete("d", {}),
               Delete("d", Some([recursive |-> {TRUE}])), Rename("e", "d", {}) }

RenamePairs == { <<"d", "e">>, <<"e", "d">>, <<"d/x", "e/x">>, <<"d/x", "e">>,
                 <<"d", "d">> }

\* every resource operation, explored as a batch of one step
AllResourceOps ==
    {Create(p, o) : p \in Paths, o \in FileOptions}
      \cup {Delete(p, o) : p \in Paths, o \in DeleteOptions}
      \cup {Rename(pq[1], pq[2], o) : pq \in RenamePairs, o \in FileOptions}

EditUris == {"e", "d/x"}

DocumentChanges(kind, list) == Some([kind |-> kind, list |-> list])

WorkspaceEdits ==
    {[document_changes |-> DocumentChanges("Edits", l), changes |-> {}] :
        l \in SeqsUpTo(EditUris, MaxOps)}
      \cup {[document_changes |-> DocumentChanges("Operations", l), changes |-> c] :
              l \in SeqsUpTo(CoreSteps, MaxOps), c \in {{}}}
      \cup {[document_changes |-> DocumentChanges("Operations", <<op>>),
             changes |-> {}] : op \in AllResourceOps}
      \cup {[document_changes |-> DocumentChanges("Operations", <<>>),
             changes |-> Some(EditUris)]}
      \cup {[document_changes |-> {}, changes |-> c] :
              c \in {{}} \cup {Some(S) : S \in SUBSET EditUris}}

\* the ids a server gives its requests
RequestIds == {"id1", "id2"}

ApplyEditRequests ==
    {[method |-> "apply_edit_from_server", id |-> id, edit |-> e, order |-> o] :
        id \in RequestIds, e \in WorkspaceEdits, o \in SeqsUpTo(EditUris, 2)}
      \cup {[method |-> "apply_edit_from_editor", edit |-> e, order |-> o] :
              e \in WorkspaceEdits, o \in SeqsUpTo(EditUris, 2)}

\* the changes map is iterated in some order of its keys
OrderFits(req) ==
    IF req.edit.changes = {} THEN req.order = <<>>
    ELSE /\ Len(req.order) = Cardinality(unwrap_or(req.edit.changes, {}))
         /\ Range(req.order) = unwrap_or(req.edit.changes, {})

Applied(r, req) ==
    [op |-> "apply_edit", request |-> req, edit |-> req.edit, fs_before |-> fs,
     applied |-> r.applied, log |-> r.log]

\* reply that reports every edit as applied
reply_Applied(id, response) == << [reply |-> id, applied |-> TRUE] >>

\* ctx.reply(id, Ok(response)): one message to the server, carrying the id of
\* its request and the ApplyWorkspaceEditResponse
reply(id, response) == << [reply |-> id, applied |-> response.applied] >>

\* apply_edit_from_server: apply the edit, then reply to the server's request
apply_edit_from_server ==
    /\ inbox.method = "apply_edit_from_server"
    /\ LET r == apply_edit(fs, documents, inbox.edit, inbox.order)
       IN  /\ fs' = r.fs
           /\ editor_out' = r.out
           /\ server_out' = reply(inbox.id, r)
           /\ last' = Applied(r, inbox)
    /\ inbox' = NoRequest
    /\ UNCHANGED <<documents, config, completion>>

\* apply_edit_from_editor: apply the edit; the response is dropped
apply_edit_from_editor ==
    /\ inbox.method = "apply_edit_from_editor"
    /\ LET r == apply_edit(fs, documents, inbox.edit, inbox.order)
       IN  /\ fs' = r.fs
           /\ editor_out' = r.out
           /\ last' = Applied(r, inbox)
    /\ server_out' = <<>>
    /\ inbox' = NoRequest
    /\ UNCHANGED <<documents, config, completion>>

\* one workspace edit arrives, from the server or from the editor, for any
\* state of the file system and of the tracked documents
InitEdit ==
    /\ inbox \in ApplyEditRequests
    /\ OrderFits(inbox)
    /\ fs \in FileSystems
    /\ documents \in {{}, {"e"}}
    /\ config = DefaultConfig
    /\ NoCompletion
    /\ editor_out = <<>>
    /\ server_out = <<>>
    /\ last = Idle

NextEdit == apply_edit_from_server \/ apply_edit_from_editor

SpecEdit == InitEdit /\ [][NextEdit]_vars

(***************************************************************************)
(* The completion pipeline: editor_completion.                             *)
(***************************************************************************)
\* bound: the number of candidates of a completion response
MaxItems == 3

\* the bytes a character takes in UTF-8
Utf8Width(c) == IF c = "é" THEN 2 ELSE 1

\* str::len: the length in bytes
RECURSIVE ByteLen(_)
ByteLen(str) == IF str = <<>> THEN 0 ELSE Utf8Width(Head(str)) + ByteLen(Tail(str))

Maximum(S) == CHOOSE k \in S : \A j \in S : j <= k

LspPosition(l, c) == [line |-> l, character |-> c]
LspRange(l1, c1, l2, c2) == [start |-> LspPosition(l1, c1), end |-> LspPosition(l2, c2)]
KakounePosition(l, c) == [line |-> l, column |-> c]

\* position::lsp_range_to_kakoune: protocol positions count from 0, the
\* editor's from 1
lsp_range_to_kakoune(range) ==
    [start |-> KakounePosition(range.start.line + 1, range.start.character + 1),
     end |-> KakounePosition(range.end.line + 1, range.end.character + 1)]

\* CompletionTextEdit::Edit and CompletionTextEdit::InsertAndReplace
TextEdit(range, new_text) == [kind |-> "Edit", range |-> range, new_text |-> new_text]
InsertReplaceEdit(insert, replace, new_text) ==
    [kind |-> "InsertAndReplace", insert |-> insert, replace |-> replace,
     new_text |-> new_text]

SNIPPET == "Snippet"

\* a CompletionItem with only the fields given set
Item(label, text_edit, insert_text, filter_text) ==
    [label |-> label, kind |-> {}, detail |-> {}, documentation |-> {},
     filter_text |-> filter_text, insert_text |-> insert_text, text_edit |-> text_edit,
     insert_text_format |-> {}, additional_text_edits |-> {}]

\* detail, a rule when both exist, and the documentation
Markdown(x) ==
    (IF x.detail # {}
     THEN <<unwrap_or(x.detail, <<>>)>> \o (IF x.documentation # {} THEN <<"---">> ELSE <<>>)
     ELSE <<>>)
      \o (IF x.documentation # {} THEN <<unwrap_or(x.documentation, <<>>)>> ELSE <<>>)

\* on_select: record the index, then show the info box or an empty one
OnSelect(x, index, cfg) ==
    [set_index |-> index, info |-> Markdown(x),
     plaintext |-> Markdown(x) # <<>> /\ cfg.force_plaintext]

\* entry: the label, padded to maxlen and followed by the kind when it has one
MenuText(x, maxlen) ==
    IF x.kind # {}
    THEN [label |-> x.label, pad |-> maxlen - ByteLen(x.label), kind |-> x.kind]
    ELSE [label |-> x.label, pad |-> 0, kind |-> {}]

NewTextOf(cte) == cte.new_text

\* maybe_filter_text
MaybeFilterText(x, params) ==
    IF ~params.have_kakoune_feature_filtertext THEN {}
    ELSE LET specified_filter_text == unwrap_or(x.filter_text, x.label)
             specified_insert_text ==
                 IF x.text_edit # {} THEN NewTextOf(unwrap_or(x.text_edit, {}))
                 ELSE unwrap_or(x.insert_text, x.label)
         IN  IF specified_filter_text = specified_insert_text THEN {}
             ELSE Some(specified_filter_text)

\* the state of the offset inference while the candidates are mapped
NoInference == [inferred_offset |-> {}, can_infer_offset |-> TRUE]

\* the match on inferred_offset, taken while can_infer_offset holds
InferOffset(st, column) ==
    IF ~st.can_infer_offset THEN st
    ELSE IF st.inferred_offset = {}
    THEN [st EXCEPT !.inferred_offset = Some(column)]
    ELSE IF unwrap_or(st.inferred_offset, 0) # column
    THEN [inferred_offset |-> {}, can_infer_offset |-> FALSE]
    ELSE st

\* FromTextEdit that takes the replacement text of a plain edit wherever its
\* range lies
FromTextEdit_AnyRange(st, x, docs, meta, params) ==
    IF x.text_edit = {} THEN [st |-> st, text |-> {}]
    ELSE IF meta.buffile \notin docs
    THEN [st |-> [st EXCEPT !.can_infer_offset = FALSE], text |-> {}]
    ELSE LET cte == unwrap_or(x.text_edit, {})
         IN  IF cte.kind = "Edit"
             THEN [st |-> InferOffset(st, lsp_range_to_kakoune(cte.range).start.column),
                   text |-> Some(cte.new_text)]
             ELSE [st |-> [st EXCEPT !.can_infer_offset = FALSE], text |-> {}]

\* the closure given to x.text_edit.and_then: the new inference state and the
\* replacement text when the edit can be handed to the editor as it is
FromTextEdit(st, x, docs, meta, params) ==
    IF x.text_edit = {} THEN [st |-> st, text |-> {}]
    ELSE IF meta.buffile \notin docs
    THEN [st |-> [st EXCEPT !.can_infer_offset = FALSE], text |-> {}]
    ELSE LET cte == unwrap_or(x.text_edit, {})
         IN  IF cte.kind = "Edit"
             THEN LET range == lsp_range_to_kakoune(cte.range)
                  IN  [st |-> InferOffset(st, range.start.column),
                       text |-> IF /\ range.start.line = params.position.line
                                   /\ range.end.line = params.position.line
                                   /\ \/ range.end.column = params.position.column
                                      \/ range.end.column + 1 = params.position.column
                                THEN Some(cte.new_text) ELSE {}]
             ELSE [st |-> [st EXCEPT !.can_infer_offset = FALSE], text |-> {}]

\* the characters a snippet's literal prefix stops at: [ ( < newline $
SnippetStops == {"[", "(", "<", "\n", "$"}

\* snippet_prefix_re.find(snippet): the longest run of other characters at
\* the start, or the whole snippet when there is none
RECURSIVE PrefixRun(_)
PrefixRun(str) ==
    IF str = <<>> \/ Head(str) \in SnippetStops THEN <<>>
    ELSE <<Head(str)>> \o PrefixRun(Tail(str))

SnippetPrefix(snippet) == IF PrefixRun(snippet) = <<>> THEN snippet ELSE PrefixRun(snippet)

\* completion_entry: four fields with a filter text, three without
completion_entry(insert_text, maybe_filter_text, on_select, menu) ==
    IF maybe_filter_text # {}
    THEN <<insert_text, unwrap_or(maybe_filter_text, <<>>), on_select, menu>>
    ELSE <<insert_text, on_select, menu>>

\* the body of the map over the candidates, for candidate x at index
RenderItem(st, x, index, maxlen, docs, cfg, meta, params) ==
    LET on_select == OnSelect(x, index, cfg)
        entry == MenuText(x, maxlen)
        maybe_filter_text == MaybeFilterText(x, params)
        from_edit == FromTextEdit(st, x, docs, meta, params)
        insert_text == IF from_edit.text # {} THEN unwrap_or(from_edit.text, <<>>)
                       ELSE unwrap_or(x.insert_text, x.label)
    IN  [st |-> from_edit.st,
         entry |->
           IF cfg.snippet_support /\ x.insert_text_format = Some(SNIPPET)
           THEN completion_entry(SnippetPrefix(insert_text), maybe_filter_text,
                                 [on_select |-> on_select,
                                  snippet_prefix |-> SnippetPrefix(insert_text),
                                  snippet |-> insert_text],
                                 entry)
           ELSE completion_entry(insert_text, maybe_filter_text, on_select, entry)]

\* items.into_iter().enumerate().map(..): entries in order, inference threaded
RECURSIVE RenderItems(_, _, _, _, _, _, _, _)
RenderItems(acc, items, i, maxlen, docs, cfg, meta, params) ==
    IF i > Len(items) THEN acc
    ELSE LET r == RenderItem(acc.st, items[i], i - 1, maxlen, docs, cfg, meta, params)
         IN  RenderItems([st |-> r.st, entries |-> Append(acc.entries, r.entry)],
                         items, i + 1, maxlen, docs, cfg, meta, params)

\* the items of a response: an array, a list, or nothing
ItemsOf(result) == IF result = {} THEN <<>> ELSE unwrap_or(result, {}).items

\* MenuCommands without the early return on an empty response
MenuCommands_NoEmptyCheck(items, docs, cfg, meta, params) ==
    LET r == RenderItems([st |-> NoInference, entries |-> <<>>], items, 1,
                         0, docs, cfg, meta, params)
    IN  << [cmd |-> "set window lsp_completions",
            line |-> params.position.line,
            offset |-> unwrap_or(r.st.inferred_offset, params.completion.offset),
            version |-> meta.version,
            items |-> r.entries] >>

\* the commands editor_completion sends to the editor for these items
MenuCommands(items, docs, cfg, meta, params) ==
    IF items = <<>> THEN <<>>
    ELSE LET maxlen == Maximum({ByteLen(items[i].label) : i \in 1..Len(items)})
             r == RenderItems([st |-> NoInference, entries |-> <<>>], items, 1,
                              maxlen, docs, cfg, meta, params)
         IN  << [cmd |-> "set window lsp_completions",
                 line |-> params.position.line,
                 offset |-> unwrap_or(r.st.inferred_offset, params.completion.offset),
                 version |-> meta.version,
                 items |-> r.entries] >>

\* the menu the editor shows once it has run the handler's commands: a
\* "set window lsp_completions" command replaces it by the candidates rendered
ShownAfter(commands, items) ==
    IF commands = <<>> THEN lsp_completions ELSE items

\* editor_completion, the continuation of a textDocument/completion request
EditorCompletion(req) ==
    /\ completion_items' = ItemsOf(req.result)
    /\ editor_out' = MenuCommands(ItemsOf(req.result), documents, config, req.meta,
                                  req.params)
    /\ lsp_completions' = ShownAfter(editor_out', ItemsOf(req.result))
    /\ server_out' = <<>>
    /\ last' = [op |-> "editor_completion", meta |-> req.meta, params |-> req.params,
                result |-> req.result]
    /\ UNCHANGED <<fs, documents, config, completion_text_edits,
                   completion_cursor_position, in_flight>>

editor_completion ==
    /\ inbox.method = "editor_completion"
    /\ EditorCompletion(inbox)
    /\ inbox' = NoRequest

\* texts: "f", "fo", the snippet "f($1)"
F == <<"f">>
FO == <<"f", "o">>
FSnippet == <<"f", "(", "$", "1", ")">>

\* the buffer completion is asked for, and the cursor: line 1, column 5
Buffile == "e"
CursorParams(filtertext) ==
    [position |-> KakounePosition(1, 5), completion |-> [offset |-> 5],
     have_kakoune_feature_filtertext |-> filtertext]

\* candidates without an edit, with plain edits that start at column 3 or 4
\* and end at or next to the cursor, on another line or short of the cursor,
\* with an insert-and-replace edit, and with the optional fields set
MenuCandidates ==
    { Item(F, {}, {}, {}),
      Item(F, Some(TextEdit(LspRange(0, 2, 0, 4), FO)), {}, {}),
      Item(FO, Some(TextEdit(LspRange(0, 3, 0, 3), FO)), {}, {}),
      Item(F, Some(InsertReplaceEdit(LspRange(0, 2, 0, 4), LspRange(0, 2, 0, 4), FO)),
           {}, {}),
      Item(F, Some(TextEdit(LspRange(1, 3, 1, 4), FO)), {}, {}),
      Item(F, Some(TextEdit(LspRange(0, 2, 0, 2), FO)), Some(F), {}),
      [Item(FO, {}, Some(FSnippet), Some(F)) EXCEPT
         !.kind = Some("Function"), !.detail = Some("fn"),
         !.documentation = Some("doc"), !.insert_text_format = Some(SNIPPET)] }

CompletionResponses(candidates, n) ==
    {{}} \cup {Some([kind |-> k, items |-> l]) :
                 k \in {"Array", "List"}, l \in SeqsUpTo(candidates, n)}

Meta(client) == [client |-> client, buffile |-> Buffile, version |-> 1]

\* one completion response arrives, for a tracked or an untracked buffer
InitMenu ==
    /\ inbox \in {[method |-> "editor_completion", meta |-> Meta("c1"),
                   params |-> CursorParams(ft), result |-> r] :
                    ft \in BOOLEAN, r \in CompletionResponses(MenuCandidates, MaxItems)}
    /\ fs = <<>>
    /\ documents \in {{}, {Buffile}}
    /\ config \in {[DefaultConfig EXCEPT !.snippet_support = b] : b \in BOOLEAN}
    /\ NoCompletion
    /\ editor_out = <<>>
    /\ server_out = <<>>
    /\ last = Idle

NextMenu == editor_completion

SpecMenu == InitMenu /\ [][NextMenu]_vars

(***************************************************************************)
(* Accepting a completion: apply_completion_edit_from_editor.              *)
(***************************************************************************)
\* bound: the number of entries of a client's pending-edit map
MaxPending == 2

\* str::char_indices: the byte offset at which each character starts
CharIndex(str, i) == ByteLen(SubSeq(str, 1, i - 1))

\* &s[..end]: the characters that start before byte offset end
SliceTo(str, end) ==
    SubSeq(str, 1, Cardinality({i \in 1..Len(str) : CharIndex(str, i) < end}))

without_last_character(str) ==
    LET end == IF str = <<>> THEN 0 ELSE CharIndex(str, Len(str))
    IN  SliceTo(str, end)

Digits == {"0", "1", "2", "3", "4", "5", "6", "7", "8", "9"}

DigitValue(c) ==
    CASE c = "0" -> 0 [] c = "1" -> 1 [] c = "2" -> 2 [] c = "3" -> 3 [] c = "4" -> 4
      [] c = "5" -> 5 [] c = "6" -> 6 [] c = "7" -> 7 [] c = "8" -> 8 [] c = "9" -> 9

RECURSIVE DecimalValue(_)
DecimalValue(piece) ==
    IF piece = <<>> THEN 0
    ELSE 10 * DecimalValue(SubSeq(piece, 1, Len(piece) - 1)) + DigitValue(piece[Len(piece)])

\* num.parse::<u64>().ok()
parse_u64(piece) ==
    IF piece # <<>> /\ Range(piece) \subseteq Digits THEN Some(DecimalValue(piece)) ELSE {}

\* filter_map(..).collect(): the pieces that parse, in order
RECURSIVE FilterParsed(_)
FilterParsed(pieces) ==
    IF pieces = <<>> THEN <<>>
    ELSE (IF parse_u64(Head(pieces)) = {} THEN <<>>
          ELSE <<unwrap_or(parse_u64(Head(pieces)), 0)>>) \o FilterParsed(Tail(pieces))

\* params.range.split(|c| c == ',' || c == '.').filter_map(..).collect()
Coordinates(range) == FilterParsed(SplitFrom(range, {",", "."}, 1, <<>>))

\* position::kakoune_position_to_lsp and kakoune_range_to_lsp: the editor
\* counts lines and columns from 1, the protocol from 0
kakoune_position_to_lsp(pos) == LspPosition(pos.line - 1, pos.column - 1)
kakoune_range_to_lsp(range) ==
    [start |-> kakoune_position_to_lsp(range.start),
     end |-> kakoune_position_to_lsp(range.end)]

cursor_width == 1

\* saturating_sub that does not stop at zero
saturating_sub_Plain(a, b) == a - b

saturating_sub(a, b) == IF a > b THEN a - b ELSE 0

\* apply_completion_edit up to the assertion: the left and the right edit
CompletionEdits(coordinates, cursor, completion_label, completion_text_edit) ==
    LET inserted_range ==
            kakoune_range_to_lsp([start |-> KakounePosition(coordinates[1], coordinates[2]),
                                  end |-> KakounePosition(coordinates[3], coordinates[4])])
        text_edit ==
            IF completion_text_edit.kind = "Edit" THEN completion_text_edit
            ELSE TextEdit(completion_text_edit.replace, completion_text_edit.new_text)
        left_range ==
            [start |-> text_edit.range.start,
             end |-> [text_edit.range.start EXCEPT !.character = @ + Len(completion_label)]]
        cursor_position == kakoune_position_to_lsp(cursor)
        range_right_of_cursor ==
            saturating_sub(text_edit.range.end.character, cursor_position.character)
        right_range ==
            [start |-> [inserted_range.end EXCEPT !.character = @ + cursor_width],
             end |-> [inserted_range.end EXCEPT
                        !.character = @ + cursor_width + range_right_of_cursor]]
    IN  [left |-> [range |-> left_range, new_text |-> text_edit.new_text],
         right |-> [range |-> right_range, new_text |-> <<>>]]

\* apply_completion_edit: what it sends to the editor, and how it ends
apply_completion_edit(meta, params, docs, cursor, completion_label, completion_text_edit) ==
    LET coordinates == Coordinates(params.range)
    IN  IF Len(coordinates) # 4 THEN [outcome |-> "bad_range", out |-> <<>>]
        ELSE IF meta.buffile \notin docs THEN [outcome |-> "no_document", out |-> <<>>]
        ELSE LET e == CompletionEdits(coordinates, cursor, completion_label,
                                      completion_text_edit)
                 edits == <<e.left>> \o (IF e.right.range.start # e.right.range.end
                                         THEN <<e.right>> ELSE <<>>)
             IN  IF e.left.range.start = e.left.range.end     \* the assert! fails
                 THEN [outcome |-> "panic", out |-> <<>>]
                 ELSE [outcome |-> "applied",
                       out |-> apply_text_edits(Started(fs), meta.buffile, edits, docs,
                                                1).out]

\* HashMap::remove_entry
remove_entry(map, key) ==
    IF key \in DOMAIN map
    THEN [found |-> Some([label |-> key, edit |-> map[key]]),
          map |-> [k \in DOMAIN map \ {key} |-> map[k]]]
    ELSE [found |-> {}, map |-> map]

\* TakeSavedEdit that tries the label without its last character first
TakeSavedEdit_ShorterFirst(map, label) ==
    IF remove_entry(map, without_last_character(label)).found # {}
    THEN remove_entry(map, without_last_character(label))
    ELSE remove_entry(map, label)

\* TakeSavedEdit that falls back to any entry of the map
TakeSavedEdit_AnyEntry(map, label) ==
    IF remove_entry(map, label).found # {} THEN remove_entry(map, label)
    ELSE IF remove_entry(map, without_last_character(label)).found # {}
    THEN remove_entry(map, without_last_character(label))
    ELSE IF DOMAIN map = {} THEN remove_entry(map, label)
    ELSE remove_entry(map, CHOOSE k \in DOMAIN map : TRUE)

\* remove_entry(&params.label).or_else(|| remove_entry(without_last_character(..)))
TakeSavedEdit(map, label) ==
    IF remove_entry(map, label).found # {} THEN remove_entry(map, label)
    ELSE remove_entry(map, without_last_character(label))

EmptyMap == [k \in {} |-> {}]

\* AcceptWithMap without the map.clear() at the end
AcceptWithMap_NoClear(map, meta, params, docs, cursor) ==
    LET taken == TakeSavedEdit(map, params.label)
    IN  IF taken.found = {}
        THEN [map |-> taken.map, out |-> <<>>, outcome |-> "not_found", found |-> {}]
        ELSE LET saved == unwrap_or(taken.found, {})
                 r == apply_completion_edit(meta, params, docs, cursor, saved.label,
                                            saved.edit)
             IN  [map |-> taken.map, out |-> r.out, outcome |-> r.outcome,
                  found |-> taken.found]

\* apply_completion_edit_from_editor for a client that has a pending-edit map:
\* the map it leaves, the commands sent, and how the handler ends
AcceptWithMap(map, meta, params, docs, cursor) ==
    LET taken == TakeSavedEdit(map, params.label)
    IN  IF taken.found = {}
        THEN [map |-> EmptyMap, out |-> <<>>, outcome |-> "not_found", found |-> {}]
        ELSE LET saved == unwrap_or(taken.found, {})
                 r == apply_completion_edit(meta, params, docs, cursor, saved.label,
                                            saved.edit)
             IN  [map |-> IF r.outcome = "panic" THEN taken.map ELSE EmptyMap,
                  out |-> r.out, outcome |-> r.outcome, found |-> taken.found]

ApplyCompletionEditFromEditor(req) ==
    /\ IF req.meta.client \notin DOMAIN completion_text_edits
       THEN /\ UNCHANGED completion_text_edits
            /\ editor_out' = <<>>
            /\ last' = [op |-> "apply_completion_edit_from_editor", meta |-> req.meta,
                        params |-> req.params, before |-> completion_text_edits,
                        outcome |-> "no_client_map", found |-> {}]
       ELSE LET r == AcceptWithMap(completion_text_edits[req.meta.client], req.meta,
                                   req.params, documents, completion_cursor_position)
            IN  /\ completion_text_edits' =
                     [completion_text_edits EXCEPT ![req.meta.client] = r.map]
                /\ editor_out' = r.out
                /\ last' = [op |-> "apply_completion_edit_from_editor", meta |-> req.meta,
                            params |-> req.params, before |-> completion_text_edits,
                            outcome |-> r.outcome, found |-> r.found]
    /\ server_out' = <<>>
    /\ UNCHANGED <<fs, documents, config, completion_items, completion_cursor_position,
                   in_flight, lsp_completions>>

apply_completion_edit_from_editor ==
    /\ inbox.method = "apply_completion_edit_from_editor"
    /\ ApplyCompletionEditFromEditor(inbox)
    /\ inbox' = NoRequest

\* labels: "", "f", "fo", "fé"
FE == <<"f", "é">>
PendingLabels == {<<>>, F, FO, FE}

\* the labels the editor reports as accepted: also "fo ", "é" and "féo"
AcceptedLabels == PendingLabels \cup {<<"f", "o", " ">>, <<"é">>, <<"f", "é", "o">>}

\* stored edits: ending at the recorded cursor, ending right of it, and an
\* insert-and-replace edit
PendingEdits ==
    { TextEdit(LspRange(0, 2, 0, 4), FO), TextEdit(LspRange(0, 3, 0, 6), F),
      InsertReplaceEdit(LspRange(0, 2, 0, 4), LspRange(0, 2, 0, 5), FO) }

PendingMaps ==
    UNION {[K -> PendingEdits] :
             K \in {S \in SUBSET PendingLabels : Cardinality(S) <= MaxPending}}

Clients == {"c1", "c2"}

\* the maps of the client that does not accept
OtherMaps == {EmptyMap, [k \in {F} |-> TextEdit(LspRange(0, 2, 0, 4), FO)]}

WithMap(state, client, map) ==
    [c \in DOMAIN state \cup {client} |-> IF c = client THEN map ELSE state[c]]

\* ctx.completion_text_edits: a client has no map, or a map of pending edits
PendingStates ==
    LET first == {EmptyMap} \cup {WithMap(EmptyMap, "c1", m) : m \in PendingMaps}
    IN  first \cup {WithMap(st, "c2", m) : st \in first, m \in OtherMaps}

\* the accepted range as the editor sends it: "1.3,1.4", and malformed ones
RangeParams ==
    { <<"1", ".", "3", ",", "1", ".", "4">>, <<"1", ".", "3", ",", "1">>,
      <<"1", ".", "3", ",", "1", ".", "x">> }

AcceptRequests ==
    {[method |-> "apply_completion_edit_from_editor", meta |-> Meta(c),
      params |-> [range |-> r, label |-> l]] :
        c \in Clients, r \in RangeParams, l \in AcceptedLabels}

\* the editor reports one accepted completion; the pending edits are those
\* stored for the clients at completion time, with the cursor of that time
InitAccept ==
    /\ inbox \in AcceptRequests
    /\ fs = <<>>
    /\ documents \in {{}, {Buffile}}
    /\ config = DefaultConfig
    /\ completion_items = <<>>
    /\ completion_text_edits \in PendingStates
    /\ completion_cursor_position \in {KakounePosition(1, 5), KakounePosition(1, 6)}
    /\ in_flight = <<>>
    /\ lsp_completions = <<>>
    /\ editor_out = <<>>
    /\ server_out = <<>>
    /\ last = Idle

NextAccept == apply_completion_edit_from_editor

SpecAccept == InitAccept /\ [][NextAccept]_vars

(***************************************************************************)
(* Resolving a candidate: completion_item_resolve and its continuation,    *)
(* interleaved with completion responses.                                  *)
(***************************************************************************)
\* bound: the number of candidates of a response in a session
MaxStored == 2
\* bound: the number of resolve requests awaiting their response
MaxInFlight == 1

\* a handler panicked: the session's thread is gone
Panicked == "outcome" \in DOMAIN last /\ last.outcome = "panic"

WithAdditionalEdits(x, edits) == [x EXCEPT !.additional_text_edits = edits]

\* additionalTextEdits: absent, an empty list, or one edit
AdditionalEdits == {{}, Some(<<>>), Some(<<"import">>)}

\* candidates with and without an explicit edit and additional edits
SessionCandidates ==
    { Item(F, Some(TextEdit(LspRange(0, 2, 0, 4), FO)), {}, {}),
      WithAdditionalEdits(Item(FO, {}, {}, {}), Some(<<"import">>)),
      WithAdditionalEdits(Item(FE, {}, {}, {}), Some(<<>>)) }

CompletionResults ==
    {[method |-> "editor_completion", meta |-> Meta("c1"),
      params |-> CursorParams(FALSE), result |-> r] :
        r \in CompletionResponses(SessionCandidates, MaxStored)}

\* a response to a textDocument/completion request arrives
completion_response ==
    /\ ~Panicked
    /\ \E req \in CompletionResults : EditorCompletion(req)
    /\ UNCHANGED inbox

\* completion_item_resolve: -1 selects nothing; any other index is taken
\* from ctx.completion_items, and indexing past its end panics
CompletionItemResolve(meta, completion_item_index) ==
    /\ IF completion_item_index = -1
       THEN /\ UNCHANGED in_flight
            /\ server_out' = <<>>
            /\ last' = [op |-> "completion_item_resolve",
                        index |-> completion_item_index, outcome |-> "nothing",
                        before |-> in_flight]
       ELSE IF completion_item_index + 1 \notin 1..Len(completion_items)
       THEN /\ UNCHANGED in_flight
            /\ server_out' = <<>>
            /\ last' = [op |-> "completion_item_resolve",
                        index |-> completion_item_index, outcome |-> "panic",
                        before |-> in_flight]
       ELSE LET item == completion_items[completion_item_index + 1]
            IN  /\ in_flight' = Append(in_flight, [meta |-> meta, item |-> item])
                /\ server_out' = << [method |-> "completionItem/resolve",
                                     params |-> item] >>
                /\ last' = [op |-> "completion_item_resolve",
                            index |-> completion_item_index, outcome |-> "sent",
                        before |-> in_flight]
    /\ editor_out' = <<>>
    /\ UNCHANGED <<inbox, fs, documents, config, completion_items,
                   completion_text_edits, completion_cursor_position, lsp_completions>>

completion_item_resolve ==
    /\ ~Panicked
    /\ Len(in_flight) < MaxInFlight
    /\ \E index \in -1..MaxStored : CompletionItemResolve(Meta("c1"), index)

\* ResolvedEditsToApply that does not look at the original candidate
ResolvedEditsToApply_Always(item, result) == result.additional_text_edits

\* the match of editor_completion_item_resolve: the resolved edits to apply
ResolvedEditsToApply(item, result) ==
    IF Len(unwrap_or(item.additional_text_edits, <<>>)) = 0
         /\ result.additional_text_edits # {}
    THEN result.additional_text_edits
    ELSE {}

Remove(seq, k) == SubSeq(seq, 1, k - 1) \o SubSeq(seq, k + 1, Len(seq))

\* editor_completion_item_resolve, the continuation of the k-th request in
\* flight, called with the candidate as the server resolved it
EditorCompletionItemResolve(k, result) ==
    LET call == in_flight[k]
        to_apply == ResolvedEditsToApply(call.item, result)
        r == IF to_apply = {} THEN Started(fs)
             ELSE apply_text_edits(Started(fs), call.meta.buffile,
                                   unwrap_or(to_apply, <<>>), documents, 1)
    IN  /\ in_flight' = Remove(in_flight, k)
        /\ fs' = r.fs
        /\ editor_out' = r.out
        /\ server_out' = <<>>
        /\ last' = [op |-> "editor_completion_item_resolve", item |-> call.item,
                    result |-> result, edits |-> unwrap_or(to_apply, <<>>),
                    called |-> to_apply # {}, buffile |-> call.meta.buffile,
                    fs_before |-> fs]
        /\ UNCHANGED <<inbox, documents, config, completion_items,
                       completion_text_edits, completion_cursor_position,
                       lsp_completions>>

\* responses may arrive in any order
editor_completion_item_resolve ==
    /\ ~Panicked
    /\ \E k \in 1..Len(in_flight) :
         \E edits \in AdditionalEdits :
           EditorCompletionItemResolve(k, WithAdditionalEdits(in_flight[k].item, edits))

\* a session before its first completion; the buffer is a file on disk,
\* tracked or not
InitSession ==
    /\ inbox = NoRequest
    /\ fs \in {f \in FileSystems : f[Buffile] = "empty" /\ f["d"] = "none"}
    /\ documents \in {{}, {Buffile}}
    /\ config = DefaultConfig
    /\ completion_items = <<>>
    /\ completion_text_edits = EmptyMap
    /\ completion_cursor_position = KakounePosition(1, 5)
    /\ in_flight = <<>>
    /\ lsp_completions = <<>>
    /\ editor_out = <<>>
    /\ server_out = <<>>
    /\ last = Idle

NextSession ==
    \/ completion_response
    \/ completion_item_resolve
    \/ editor_completion_item_resolve

SpecSession == InitSession /\ [][NextSession]_vars

(***************************************************************************)
(* Claims about workspace edits.                                           *)
(***************************************************************************)
IsOperations(edit) ==
    edit.document_changes # {} /\ unwrap_or(edit.document_changes, {}).kind = "Operations"

OperationsOf(edit) == unwrap_or(edit.document_changes, {}).list

\* the file system after the first n steps of ops, taken one at a time from f
RECURSIVE FsAfter(_, _, _, _)
FsAfter(f, ops, docs, n) ==
    IF n = 0 THEN f
    ELSE LET g == FsAfter(f, ops, docs, n - 1)
         IN  IF ops[n].kind = "Edit"
             THEN IF ops[n].uri \notin docs /\ is_file(g, ops[n].uri)
                  THEN [g EXCEPT ![ops[n].uri] = "data"] ELSE g
             ELSE apply_document_resource_op(g, ops[n]).fs

\* step k of ops is a resource operation that fails where the list has got to
FailsAt(f, ops, docs, k) ==
    /\ ops[k].kind # "Edit"
    /\ ~apply_document_resource_op(FsAfter(f, ops, docs, k - 1), ops[k]).ok

Minimum(S) == CHOOSE k \in S : \A j \in S : k <= j

\* C1: an ordered operation list is executed in list order up to the first
\* resource operation that fails: applied is false, the steps before it have
\* taken effect and stay in effect, and no step after it is executed.
C1_OperationsFailFast ==
    (last.op = "apply_edit" /\ IsOperations(last.edit)) =>
      LET ops == OperationsOf(last.edit)
          log == last.log
          failing == {k \in 1..Len(ops) : FailsAt(last.fs_before, ops, documents, k)}
          ran == IF failing = {} THEN Len(ops) ELSE Minimum(failing)
      IN  /\ Len(log) = ran
          /\ \A j \in 1..Len(log) : log[j].i = j
          /\ \A j \in 1..Len(log) : (ops[j].kind # "Edit") => (log[j].ok <=> j \notin failing)
          /\ last.applied <=> failing = {}
          /\ fs = FsAfter(last.fs_before, ops, documents, ran)
          /\ Len(editor_out) =
               Cardinality({j \in 1..ran : ops[j].kind = "Edit" /\ ops[j].uri \in documents})

\* a batch of three steps whose second step failed after the first took effect
C1_Witness ==
    /\ last.op = "apply_edit"
    /\ IsOperations(last.edit)
    /\ Len(OperationsOf(last.edit)) = 3
    /\ Len(last.log) = 2
    /\ last.log[1].ok /\ ~last.log[2].ok
    /\ ~last.applied
    /\ fs # last.fs_before
    /\ OperationsOf(last.edit)[3].kind # "Edit"
    /\ apply_document_resource_op(fs, OperationsOf(last.edit)[3]).fs # fs

\* C2: applied is true only if every text edit and every resource operation
\* of the batch completed without error, whatever the batch's shape.
C2_AppliedOnlyIfAllSucceeded ==
    (last.op = "apply_edit" /\ last.applied) =>
      \A j \in 1..Len(last.log) : last.log[j].ok

\* the server's apply-edit request has been handled
ServerEditHandled ==
    last.op = "apply_edit" /\ last.request.method = "apply_edit_from_server"

\* C15: a server-initiated apply-edit request gets exactly one reply, with the
\* id the server supplied and the applied flag of apply_edit; no reply is out
\* while the request waits, and when the reply is out the whole batch has been
\* processed or aborted.
C15_OneReplyAfterBatch ==
    /\ inbox.method = "apply_edit_from_server" => server_out = <<>>
    /\ ServerEditHandled =>
         LET r == apply_edit(last.fs_before, documents, last.edit, last.request.order)
         IN  /\ server_out = << [reply |-> last.request.id, applied |-> last.applied] >>
             /\ last.applied = r.applied
             /\ last.log = r.log
             /\ fs = r.fs
             /\ inbox = NoRequest
    /\ (last.op = "apply_edit" /\ ~ServerEditHandled) => server_out = <<>>

\* the reply to request id2 reports a batch aborted at its second step
C15_Witness ==
    /\ ServerEditHandled
    /\ last.request.id = "id2"
    /\ IsOperations(last.edit)
    /\ Len(OperationsOf(last.edit)) = 3
    /\ Len(last.log) = 2
    /\ fs # last.fs_before
    /\ server_out = << [reply |-> "id2", applied |-> FALSE] >>

(***************************************************************************)
(* Claims about the resource operations, each run as a batch of one step.  *)
(***************************************************************************)
\* apply_edit has run a batch of exactly one resource operation of this kind
RanOne(kind) ==
    /\ last.op = "apply_edit"
    /\ IsOperations(last.edit)
    /\ Len(OperationsOf(last.edit)) = 1
    /\ OperationsOf(last.edit)[1].kind = kind

TheOp == OperationsOf(last.edit)[1]

\* the operation succeeded, and the file system differs from the one before
\* at most on the paths of S
ChangedOnly(S) ==
    /\ last.applied
    /\ \A q \in Paths \ S : fs[q] = last.fs_before[q]

Unchanged == fs = last.fs_before

\* the operation failed and left the file system alone
FailedCleanly == ~last.applied /\ Unchanged

\* overwrite is not set (absent or false) and ignore_if_exists is true
Ignoring(options) ==
    /\ options # {}
    /\ \A o \in options : /\ o.overwrite \in {{}, {FALSE}}
                          /\ o.ignore_if_exists = {TRUE}

\* the path and all below it
Tree(p) == {p} \cup (IF p \in TopPaths THEN {ChildOf[p]} ELSE {})

\* C12 as stated: Create with ignore_if_exists and without overwrite on an
\* existing path succeeds and changes nothing; in every other case it writes
\* an empty file at the path, replacing existing content.
C12_CreateAsStated ==
    RanOne("Create") =>
      IF Ignoring(TheOp.options) /\ exists(last.fs_before, TheOp.uri)
      THEN last.applied /\ Unchanged
      ELSE ChangedOnly({TheOp.uri}) /\ fs[TheOp.uri] = "empty"

\* fs::write cannot put a file here: the path is a directory, or is not
\* inside a directory
Unwritable(f, p) == is_dir(f, p) \/ ~ParentIsDir(f, p)

\* C12: Create with ignore_if_exists and without overwrite on an existing
\* path succeeds and changes nothing; in every other case it writes an empty
\* file at the path, replacing existing content, unless the path is a
\* directory or has no parent directory: then it fails and changes nothing.
C12_Create ==
    RanOne("Create") =>
      IF Ignoring(TheOp.options) /\ exists(last.fs_before, TheOp.uri)
      THEN last.applied /\ Unchanged
      ELSE IF Unwritable(last.fs_before, TheOp.uri)
      THEN FailedCleanly
      ELSE ChangedOnly({TheOp.uri}) /\ fs[TheOp.uri] = "empty"

\* a file with content is created anew with overwrite set, though
\* ignore_if_exists is set too
C12_Witness ==
    /\ RanOne("Create")
    /\ TheOp.options = Some([overwrite |-> {TRUE}, ignore_if_exists |-> {TRUE}])
    /\ last.fs_before[TheOp.uri] = "data"
    /\ fs[TheOp.uri] = "empty"
    /\ last.applied

\* C13: Delete on a non-empty directory without recursive fails and removes
\* nothing; on a directory with recursive it succeeds and the directory and
\* its content are gone; an empty directory is removed; a file is removed;
\* on a path that is neither it succeeds and changes nothing.
C13_Delete ==
    RanOne("Delete") =>
      LET p == TheOp.uri
          before == last.fs_before
          recursive == TheOp.options # {} /\ \A o \in TheOp.options : o.recursive = {TRUE}
      IN  IF is_dir(before, p)
          THEN IF recursive
               THEN ChangedOnly(Tree(p)) /\ \A q \in Tree(p) : fs[q] = "none"
               ELSE IF \E q \in Tree(p) \ {p} : before[q] # "none"
               THEN FailedCleanly
               ELSE ChangedOnly({p}) /\ fs[p] = "none"
          ELSE IF before[p] \in {"empty", "data"}
          THEN ChangedOnly({p}) /\ fs[p] = "none"
          ELSE last.applied /\ Unchanged

\* a directory with a file in it is deleted recursively
C13_Witness ==
    /\ RanOne("Delete")
    /\ TheOp.uri = "d"
    /\ last.fs_before["d"] = "dir" /\ last.fs_before["d/x"] = "data"
    /\ TheOp.options = Some([recursive |-> {TRUE}])
    /\ last.applied
    /\ fs["d"] = "none" /\ fs["d/x"] = "none"

\* the source has moved to the destination, with what is below it
Moved(from, to) ==
    LET before == last.fs_before
    IN  /\ ChangedOnly(Tree(from) \cup Tree(to))
        /\ fs[to] = before[from]
        /\ from # to => \A q \in Tree(from) : fs[q] = "none"
        /\ (from # to /\ is_dir(before, from)) =>
             \A t \in TopPaths : to = t => fs[ChildOf[t]] = before[ChildOf[from]]

\* C14 as stated: Rename with ignore_if_exists and without overwrite onto an
\* existing destination succeeds and changes nothing; in every other case the
\* source is renamed to the destination, replacing an existing destination,
\* and a missing source makes the operation fail.
C14_RenameAsStated ==
    RanOne("Rename") =>
      LET from == TheOp.old_uri
          to == TheOp.new_uri
          before == last.fs_before
      IN  IF Ignoring(TheOp.options) /\ exists(before, to)
          THEN last.applied /\ Unchanged
          ELSE IF ~exists(before, from)
          THEN FailedCleanly
          ELSE Moved(from, to)

\* rename(2) refuses: the destination is not inside a directory, a file would
\* replace a directory, or a directory would replace a file or a directory
\* that is not empty
Refused(f, from, to) ==
    \/ ~ParentIsDir(f, to)
    \/ /\ from # to
       /\ \/ is_file(f, from) /\ is_dir(f, to)
          \/ is_dir(f, from) /\ is_file(f, to)
          \/ is_dir(f, from) /\ is_dir(f, to) /\ \E q \in Tree(to) \ {to} : f[q] # "none"

\* C14: Rename with ignore_if_exists and without overwrite onto an existing
\* destination succeeds and changes nothing; in every other case the source is
\* renamed to the destination, replacing an existing destination of its own
\* kind (a file, or an empty directory); the operation fails and changes
\* nothing when the source is missing or the file system refuses the rename.
C14_Rename ==
    RanOne("Rename") =>
      LET from == TheOp.old_uri
          to == TheOp.new_uri
          before == last.fs_before
      IN  IF Ignoring(TheOp.options) /\ exists(before, to)
          THEN last.applied /\ Unchanged
          ELSE IF ~exists(before, from) \/ Refused(before, from, to)
          THEN FailedCleanly
          ELSE Moved(from, to)

\* a file replaces another file although ignore_if_exists is set, since
\* overwrite is set too
C14_Witness ==
    /\ RanOne("Rename")
    /\ TheOp.options = Some([overwrite |-> {TRUE}, ignore_if_exists |-> {TRUE}])
    /\ TheOp.old_uri = "d/x" /\ TheOp.new_uri = "e"
    /\ last.fs_before["d/x"] = "data" /\ last.fs_before["e"] = "empty"
    /\ last.applied
    /\ fs["e"] = "data" /\ fs["d/x"] = "none"

(***************************************************************************)
(* Claims about the rendering of a completion response.                    *)
(***************************************************************************)
Rendered == last.op = "editor_completion"

RenderedItems == ItemsOf(last.result)

\* the plain explicit edits of the rendered response, by candidate position
PlainEdits ==
    {i \in 1..Len(RenderedItems) :
        /\ RenderedItems[i].text_edit # {}
        /\ unwrap_or(RenderedItems[i].text_edit, {}).kind = "Edit"}

StartColumn(i) ==
    lsp_range_to_kakoune(unwrap_or(RenderedItems[i].text_edit, {}).range).start.column

\* the edit starts and ends on the cursor line and ends at the cursor column
\* or one before it
Honored(i) ==
    LET range == lsp_range_to_kakoune(unwrap_or(RenderedItems[i].text_edit, {}).range)
    IN  /\ range.start.line = last.params.position.line
        /\ range.end.line = last.params.position.line
        /\ \/ range.end.column = last.params.position.column
           \/ range.end.column + 1 = last.params.position.column

\* C7: when every explicit edit of the response starts at the same column c
\* on the cursor line, the menu-install command uses c as the offset; when two
\* explicit edits start at different columns it uses the request's offset,
\* however many candidates come before or after the disagreement.  Stated
\* for the edits the pipeline honors, in a tracked buffer.
C7_SharedOffset ==
    (Rendered /\ RenderedItems # <<>> /\ last.meta.buffile \in documents) =>
      LET honored == {i \in PlainEdits : Honored(i)}
          starts == {StartColumn(i) : i \in honored}
          only_honored == \A i \in 1..Len(RenderedItems) :
                            RenderedItems[i].text_edit # {} => i \in honored
      IN  /\ (only_honored /\ Cardinality(starts) = 1)
                => editor_out[1].offset = Minimum(starts)
          /\ Cardinality(starts) >= 2
                => editor_out[1].offset = last.params.completion.offset

\* C10: a response without candidates (an empty array, an empty list, no
\* result) sends the editor nothing; one with candidates sends exactly one
\* menu-install command with one entry per candidate, in the response's order.
C10_OneMenuOrNone ==
    Rendered =>
      IF RenderedItems = <<>> THEN editor_out = <<>>
      ELSE /\ Len(editor_out) = 1
           /\ editor_out[1].cmd = "set window lsp_completions"
           /\ Len(editor_out[1].items) = Len(RenderedItems)
           /\ \A i \in 1..Len(RenderedItems) :
                LET entry == editor_out[1].items[i]
                IN  /\ entry[Len(entry)].label = RenderedItems[i].label
                    /\ entry[Len(entry)].kind = RenderedItems[i].kind

\* a list response of three different candidates was rendered as one menu
C10_Witness ==
    /\ Rendered
    /\ last.result # {}
    /\ unwrap_or(last.result, {}).kind = "List"
    /\ Len(RenderedItems) = 3
    /\ RenderedItems[1].label # RenderedItems[2].label
    /\ Len(editor_out) = 1

\* the i-th entry of the menu-install command
EntryOf(i) == editor_out[1].items[i]

\* the insertion text emitted in an entry: its first field
EmittedInsertText(i) == EntryOf(i)[1]

\* the filter text of a candidate: its filter_text, else its label
FilterTextOf(x) == unwrap_or(x.filter_text, x.label)

\* C17: an entry carries the filter-text field only when the client declared
\* filter-text support and the filter text differs from the insertion text
\* emitted in that entry; when the two are equal, or the client lacks support,
\* the entry has the three-field form.  Stated for a tracked buffer.
C17_FilterTextOnlyWhenDifferent ==
    (Rendered /\ RenderedItems # <<>> /\ last.meta.buffile \in documents) =>
      \A i \in 1..Len(RenderedItems) :
        /\ Len(EntryOf(i)) \in {3, 4}
        /\ Len(EntryOf(i)) = 4 =>
             /\ last.params.have_kakoune_feature_filtertext
             /\ EntryOf(i)[2] = FilterTextOf(RenderedItems[i])
             /\ EntryOf(i)[2] # EmittedInsertText(i)
        /\ (~last.params.have_kakoune_feature_filtertext
              \/ FilterTextOf(RenderedItems[i]) = EmittedInsertText(i))
             => Len(EntryOf(i)) = 3

\* the candidate is rendered as a snippet
AsSnippet(i) ==
    config.snippet_support /\ RenderedItems[i].insert_text_format = Some(SNIPPET)

\* the insertion text of candidate i as the entry shows it: the snippet handed
\* to lsp-snippets-insert-completion, else the entry's first field
InsertTextOf(i) ==
    IF AsSnippet(i) THEN EntryOf(i)[Len(EntryOf(i)) - 1].snippet
    ELSE EmittedInsertText(i)

\* the explicit edit of candidate i is a plain edit that is honored, in a
\* tracked buffer
EditUsable(i) ==
    /\ i \in PlainEdits
    /\ Honored(i)
    /\ last.meta.buffile \in documents

\* C18: the insertion text of a candidate is its explicit edit's replacement
\* text exactly when the edit is a plain edit that starts and ends on the
\* cursor line and ends at the cursor column or one before it, and the buffer
\* is tracked; otherwise its insert text when it has one; otherwise its label.
\* Every candidate gets its entry, whatever its edit and the buffer.
C18_InsertionText ==
    (Rendered /\ RenderedItems # <<>>) =>
      /\ Len(editor_out) = 1
      /\ Len(editor_out[1].items) = Len(RenderedItems)
      /\ \A i \in 1..Len(RenderedItems) :
           LET x == RenderedItems[i]
           IN  InsertTextOf(i) =
                 IF EditUsable(i) THEN unwrap_or(x.text_edit, {}).new_text
                 ELSE IF x.insert_text # {} THEN unwrap_or(x.insert_text, <<>>)
                 ELSE x.label

\* a menu for a tracked buffer with a candidate whose edit is used and one
\* whose edit, ending short of the cursor, gives way to its insert text
C18_Witness ==
    /\ Rendered
    /\ Len(RenderedItems) = 3
    /\ \E i, j \in 1..Len(RenderedItems) :
         /\ EditUsable(i)
         /\ EmittedInsertText(i) = FO /\ RenderedItems[i].label = F
         /\ j \in PlainEdits /\ ~Honored(j)
         /\ RenderedItems[j].insert_text = Some(F)
         /\ EmittedInsertText(j) = F

\* the rendered response with the explicit edit dropped from every candidate
\* whose plain edit is not honored
HonoredOnly ==
    [i \in 1..Len(RenderedItems) |->
       IF i \in PlainEdits /\ ~Honored(i)
       THEN [RenderedItems[i] EXCEPT !.text_edit = {}]
       ELSE RenderedItems[i]]

\* C20: only honored edits take part in offset inference: a plain edit on
\* another line, or ending elsewhere than at the cursor column or one before
\* it, has no influence on the offset of the menu-install command, which is
\* the offset the response would get without those edits.
C20_OnlyHonoredEditsInfer ==
    (Rendered /\ RenderedItems # <<>> /\ last.meta.buffile \in documents) =>
      editor_out[1].offset =
        MenuCommands(HonoredOnly, documents, config, last.meta, last.params)[1].offset

\* the sequences that hold the candidates of items in another order
Reorderings(items) ==
    {[i \in 1..Len(items) |-> items[p[i]]] : p \in Orders(1..Len(items))}

\* C22: the shared offset does not depend on the order of the candidates: the
\* menu-install command of every permutation of the rendered response, for
\* the same buffer and request, carries the offset of the command sent.
C22_OffsetOrderIndependent ==
    (Rendered /\ RenderedItems # <<>>) =>
      \A permuted \in Reorderings(RenderedItems) :
        MenuCommands(permuted, documents, config, last.meta, last.params)[1].offset
          = editor_out[1].offset

(***************************************************************************)
(* Claims about accepting a completion.                                    *)
(***************************************************************************)
Accepted == last.op = "apply_completion_edit_from_editor"

\* the handler ran to its end: it did not panic on the way
Returned == last.outcome # "panic"

HadMap == last.meta.client \in DOMAIN last.before

\* C3: when apply_completion_edit_from_editor returns for a client that has
\* a pending-edit map, that map is empty, whether the edits were applied, the
\* label was not found, the range was malformed or the document is not tracked.
C3_PendingCleared ==
    (Accepted /\ Returned /\ HadMap) =>
      /\ last.outcome \in {"applied", "not_found", "bad_range", "no_document"}
      /\ DOMAIN completion_text_edits = DOMAIN last.before
      /\ DOMAIN completion_text_edits[last.meta.client] = {}

\* an accept that applied one of two pending edits and left none behind
C3_Witness ==
    /\ Accepted
    /\ HadMap
    /\ last.outcome = "applied"
    /\ Cardinality(DOMAIN last.before[last.meta.client]) = 2
    /\ completion_text_edits[last.meta.client] = EmptyMap

\* the label with its last character removed
Shorter(label) == SubSeq(label, 1, Len(label) - 1)

\* C4: the pending edit is looked up by the exact accepted label first, and
\* only if no entry has that key by the label without its last character.
C4_ExactLabelFirst ==
    (Accepted /\ HadMap) =>
      LET map == last.before[last.meta.client]
          label == last.params.label
          expected == IF label \in DOMAIN map THEN Some([label |-> label, edit |-> map[label]])
                      ELSE IF Shorter(label) \in DOMAIN map
                      THEN Some([label |-> Shorter(label), edit |-> map[Shorter(label)]])
                      ELSE {}
      IN  /\ last.found = expected
          /\ (expected = {}) <=> (last.outcome = "not_found")
          /\ last.outcome = "applied" =>
               editor_out[1].edits[1].new_text = NewTextOf(unwrap_or(expected, {}).edit)

\* "fo " was accepted while only "fo" was a pending key, and its edit applied
C4_Witness ==
    /\ Accepted
    /\ HadMap
    /\ last.params.label = <<"f", "o", " ">>
    /\ DOMAIN last.before[last.meta.client] = {FO}
    /\ last.outcome = "applied"
    /\ unwrap_or(last.found, {}).label = FO

\* the accept finds no pending edit: the client has no map, or neither the
\* accepted label nor the label without its last character is a key
NoPendingEdit ==
    \/ ~HadMap
    \/ /\ last.params.label \notin DOMAIN last.before[last.meta.client]
       /\ Shorter(last.params.label) \notin DOMAIN last.before[last.meta.client]

\* C16: an accept that finds no pending edit is a no-op: it ends with a
\* warning, sends no text edit to the editor and nothing to the server, and
\* leaves the other clients' pending edits alone.
C16_MissingEditIsNoOp ==
    (Accepted /\ NoPendingEdit) =>
      /\ last.outcome = IF HadMap THEN "not_found" ELSE "no_client_map"
      /\ last.found = {}
      /\ editor_out = <<>>
      /\ server_out = <<>>
      /\ \A c \in DOMAIN last.before :
           c # last.meta.client => completion_text_edits[c] = last.before[c]

\* an accept of "fo " in a tracked buffer with a well-formed range, while the
\* client's only pending edit is stored under "fe"
C16_Witness ==
    /\ Accepted
    /\ HadMap
    /\ documents = {Buffile}
    /\ last.params.label = <<"f", "o", " ">>
    /\ last.params.range = <<"1", ".", "3", ",", "1", ".", "4">>
    /\ DOMAIN last.before[last.meta.client] = {FE}
    /\ last.outcome = "not_found"
    /\ editor_out = <<>>

\* the pending edit the accept found, and the range it declares: the range
\* of a plain edit, the replace range of an insert-and-replace edit
SavedEdit == unwrap_or(last.found, {})
DeclaredRange ==
    IF SavedEdit.edit.kind = "Edit" THEN SavedEdit.edit.range ELSE SavedEdit.edit.replace

\* the cursor character recorded at completion time, as the protocol counts
CursorCharacter == completion_cursor_position.column - 1

\* the edit list handed to apply_text_edits for the tracked buffer
HandedEdits == editor_out[1].edits

\* C21: on a successful accept the edit list starts with the left edit, from
\* the declared start to the declared start plus the matched label's character
\* count, replaced by the stored replacement text; the right deletion edit
\* follows exactly when the declared end character is greater than the cursor
\* character recorded at completion time, and then deletes that many
\* characters after the inserted text and the cursor; otherwise the
\* subtraction saturates at zero and the left edit is the only one.
C21_AcceptEdits ==
    (Accepted /\ last.outcome = "applied") =>
      LET inserted_end == Coordinates(last.params.range)[4] - 1
          surplus == DeclaredRange.end.character - CursorCharacter
      IN  /\ Len(editor_out) = 1
          /\ HandedEdits[1] =
               [range |-> [start |-> DeclaredRange.start,
                           end |-> LspPosition(DeclaredRange.start.line,
                                               DeclaredRange.start.character
                                                 + Len(SavedEdit.label))],
                new_text |-> SavedEdit.edit.new_text]
          /\ IF surplus > 0
             THEN /\ Len(HandedEdits) = 2
                  /\ HandedEdits[2].new_text = <<>>
                  /\ HandedEdits[2].range.start.character = inserted_end + 1
                  /\ HandedEdits[2].range.end.character = inserted_end + 1 + surplus
                  /\ HandedEdits[2].range.end.line = HandedEdits[2].range.start.line
             ELSE Len(HandedEdits) = 1

\* an accept whose stored edit ends left of the recorded cursor: the
\* subtraction saturates and only the left edit is handed over
C21_Witness ==
    /\ Accepted
    /\ last.outcome = "applied"
    /\ DeclaredRange.end.character < CursorCharacter
    /\ Len(HandedEdits) = 1
    /\ HandedEdits[1].new_text = FO

\* C23: the assertion that the left edit's range is not empty holds on every
\* accept that finds a pending edit, by the exact label or by the label
\* without its last character, for an accepted label that is not empty, in a
\* tracked buffer and with a well-formed range: no accept aborts on it, and
\* the client's pending edits are cleared.
C23_AssertionHolds ==
    (/\ Accepted
     /\ last.params.label # <<>>
     /\ last.found # {}
     /\ last.outcome \notin {"bad_range", "no_document"}) =>
      /\ last.outcome = "applied"
      /\ HandedEdits[1].range.start # HandedEdits[1].range.end
      /\ completion_text_edits[last.meta.client] = EmptyMap

(***************************************************************************)
(* Claims about a session of completions and resolves.                     *)
(***************************************************************************)
\* C5: after editor_completion renders a non-empty response for a client,
\* that client's pending-edit map holds, under its label, the edit of each
\* candidate that carries an explicit text edit.
C5_RenderingStoresPendingEdits ==
    (Rendered /\ RenderedItems # <<>>) =>
      \A i \in 1..Len(RenderedItems) :
        RenderedItems[i].text_edit # {} =>
          /\ last.meta.client \in DOMAIN completion_text_edits
          /\ RenderedItems[i].label \in DOMAIN completion_text_edits[last.meta.client]

Resolved == last.op = "editor_completion_item_resolve"

\* C6: a superseded resolve response is ignored: once a newer completion
\* response has replaced the stored candidates, so that they no longer hold
\* the request's candidate, the continuation hands no text edit of the
\* resolved candidate to apply_text_edits.
C6_SupersededResolveIgnored ==
    (Resolved /\ last.item \notin Range(completion_items)) =>
      last.edits = <<>>

\* a resolve request for the candidate the editor's menu shows at `index`
ResolveRequested == last.op = "completion_item_resolve"

\* C11: completion_item_resolve with index -1 sends nothing and changes
\* nothing; with an index into the last rendered response it sends a resolve
\* request carrying the candidate at that position of that response, also
\* when an empty response, which rendered no menu, has arrived since.
C11_ResolveSendsRenderedCandidate ==
    ResolveRequested =>
      IF last.index = -1
      THEN server_out = <<>> /\ editor_out = <<>> /\ in_flight = last.before
      ELSE last.index + 1 \in 1..Len(lsp_completions) =>
             /\ last.outcome = "sent"
             /\ server_out = << [method |-> "completionItem/resolve",
                                 params |-> lsp_completions[last.index + 1]] >>

\* the candidate carries no additional edits: none given, or an empty list
NoAdditionalEdits(x) == x.additional_text_edits \in {{}, Some(<<>>)}

\* C19: when a resolve response arrives, its additional text edits are applied
\* to the requesting buffer if and only if the candidate sent in the request
\* had no additional edits (absent or empty) and the resolved candidate
\* carries additional edits; in every other case nothing is applied.
C19_ResolvedEditsApplied ==
    Resolved =>
      IF NoAdditionalEdits(last.item) /\ last.result.additional_text_edits # {}
      THEN /\ last.called
           /\ last.edits = unwrap_or(last.result.additional_text_edits, <<>>)
           /\ last.buffile = Buffile
           /\ Buffile \in documents =>
                editor_out = << [cmd |-> "apply-text-edits", buffile |-> Buffile,
                                 edits |-> last.edits] >>
      ELSE /\ ~last.called
           /\ last.edits = <<>>
           /\ editor_out = <<>>
           /\ fs = last.fs_before

\* the resolved candidate brought an import for a candidate sent without
\* additional edits, and the tracked buffer received it
C19_Witness ==
    /\ Resolved
    /\ last.item.additional_text_edits = {}
    /\ last.result.additional_text_edits = Some(<<"import">>)
    /\ Buffile \in documents
    /\ Len(editor_out) = 1
    /\ editor_out[1].edits = <<"import">>

(***************************************************************************)
(* Claims about the settings projection.                                   *)
(***************************************************************************)
SentSettings == server_out[1].settings

\* two flat keys collide when the path of one runs through the path of the other
Collide(k1, k2) ==
    k1 # k2 /\ (IsPrefix(split(k1), split(k2)) \/ IsPrefix(split(k2), split(k1)))

EmptyLeaf(k) == split(k)[Len(split(k))] = <<>>

Projected(k) ==
    /\ split(k) \in DOMAIN SentSettings
    /\ SentSettings[split(k)] = last.table[k]

ExampleTable ==
    [k \in {<<"a", ".", "b", ".", "c">>, <<"a", ".", "b">>} |->
        IF k = <<"a", ".", "b">> THEN "2" ELSE "1"]

\* {a: {b: {c: 1}}}
ExampleNested ==
    [p \in {<< <<"a">> >>, << <<"a">>, <<"b">> >>, << <<"a">>, <<"b">>, <<"c">> >>} |->
        IF Len(p) = 3 THEN "1" ELSE Object]

\* C8: a key whose path would overwrite an already-set value is dropped and
\* the value set earlier is retained unchanged ({"a.b.c": 1, "a.b": 2} yields
\* {a: {b: {c: 1}}}); every non-colliding key is still projected.
C8_CollisionKeepsEarlierValue ==
    (/\ last.op = "did_change_configuration"
     /\ \A k \in DOMAIN last.table : ~EmptyLeaf(k)) =>
      LET order == last.order
          table == last.table
          Usable(i) == table[order[i]] # Unconvertible
          First(i) == Usable(i) /\ \A h \in 1..(i - 1) :
                                     ~(Usable(h) /\ Collide(order[h], order[i]))
      IN  /\ \A i \in 1..Len(order) : First(i) => Projected(order[i])
          /\ \A i, j \in 1..Len(order) :
               (i < j /\ First(i) /\ Usable(j) /\ Collide(order[i], order[j]))
                 => order[j] \in last.warned
          /\ (table = ExampleTable) => SentSettings = ExampleNested

\* C9: a flat key whose leaf segment is empty (a key ending in a dot) is
\* dropped: the nested object sent to the server has no entry derived from it.
C9_EmptyLeafDropped ==
    last.op = "did_change_configuration" =>
      \A k \in DOMAIN last.table :
        EmptyLeaf(k) =>
          /\ split(k) \notin DOMAIN SentSettings
          /\ k \in last.warned

====
